---- MODULE Spec2Model ----
(***************************************************************************)
(* A model of server/ssh.go of soft-serve: the two SSH authentication      *)
(* callbacks and the git middleware (the protocol dispatcher), run by      *)
(* concurrent sessions against one shared backend repository store.        *)
(* Sessions have no identity of their own in the code, so the state holds  *)
(* the bag of their states.                                                *)
(***************************************************************************)
EXTENDS Integers, Sequences, FiniteSets, Bags, TLC

\* Number of concurrent connections / sessions of the model.
NumSessions == 2

-----------------------------------------------------------------------------
(* backend.AccessLevel: an ordered enumeration, used only through >= and <. *)

NoAccess == 0
ReadOnlyAccess == 1
ReadWriteAccess == 2
AdminAccess == 3

AccessLevels == {NoAccess, ReadOnlyAccess, ReadWriteAccess, AdminAccess}

-----------------------------------------------------------------------------
(* Strings.  A command name is a sequence of chunks, so that                *)
(* strings.HasPrefix is computed and not assumed; a path is a sequence of   *)
(* segments, "/a" being <<"", "a">> as strings.Split would give.            *)

HasPrefix(str, prefix) ==
    /\ Len(str) >= Len(prefix)
    /\ SubSeq(str, 1, Len(prefix)) = prefix

gitPrefix == <<"git">>
receivePackBin == <<"git", "-receive-pack">>
uploadPackBin == <<"git", "-upload-pack">>
uploadArchiveBin == <<"git", "-upload-archive">>
lfsAuthBin == <<"git", "-lfs-authenticate">>
lsBin == <<"ls">>

\* The error values of the package and of its collaborators.
ErrNotAuthed == "ErrNotAuthed"
ErrSystemMalfunction == "ErrSystemMalfunction"
ErrInvalidRepo == "ErrInvalidRepo"
ErrPathEscape == "ErrPathEscape"
ErrRepoNotFound == "ErrRepoNotFound"
ErrLookupFailed == "ErrLookupFailed"
ErrRepoExist == "ErrRepoExist"
ErrCreateFailed == "ErrCreateFailed"
ErrPackFailed == "ErrPackFailed"
NoError == "nil"

\* strings.TrimPrefix(repo, "/")
TrimLeadingSlash(path) ==
    IF Len(path) >= 2 /\ path[1] = "" THEN Tail(path) ELSE path

\* filepath.Clean on the segments of a path: "" and "." are dropped, ".."
\* removes the segment before it, or stays when there is none to remove (a
\* relative path) or is dropped at the root (an absolute path).
RECURSIVE CleanSegs(_, _, _)
CleanSegs(todo, done, abs) ==
    IF todo = <<>> THEN done
    ELSE LET seg == Head(todo)
             rest == Tail(todo)
         IN  IF seg \in {"", "."}
                 THEN CleanSegs(rest, done, abs)
             ELSE IF seg = ".."
                 THEN IF done # <<>> /\ done[Len(done)] # ".."
                          THEN CleanSegs(rest, SubSeq(done, 1, Len(done) - 1), abs)
                      ELSE IF abs
                          THEN CleanSegs(rest, done, abs)
                      ELSE CleanSegs(rest, Append(done, seg), abs)
             ELSE CleanSegs(rest, Append(done, seg), abs)

Clean(path) ==
    LET segs == CleanSegs(path, <<>>, FALSE)
    IN  IF segs = <<>> THEN <<".">> ELSE segs

\* strings.TrimSuffix(seg, ".git") and seg + ".git" on one path segment.
TrimGitSuffix(seg) ==
    CASE seg = "a.git" -> "a"
      [] seg = "b.git" -> "b"
      [] OTHER -> seg

AddGitSuffix(seg) ==
    CASE seg = "a" -> "a.git"
      [] seg = "b" -> "b.git"
      [] seg = ".." -> "...git"
      [] seg = "." -> "..git"
      [] OTHER -> seg

\* utils.SanitizeRepo: strip the leading separator, clean, strip ".git".
SanitizeRepo(arg) ==
    LET cleaned == Clean(TrimLeadingSlash(arg))
    IN  [cleaned EXCEPT ![Len(cleaned)] = TrimGitSuffix(@)]

\* repo := name + ".git"
RepoFile(name) == [name EXCEPT ![Len(name)] = AddGitSuffix(@)]

\* filepath.Join(cfg.DataPath, "repos"), an absolute directory.
reposDir == <<"data", "repos">>

\* filepath.Join(reposDir, repo), cleaned as an absolute path.
JoinRepos(repo) == CleanSegs(reposDir \o repo, <<>>, TRUE)

\* ensureWithin(reposDir, repo): nil when the joined path is a strict
\* descendant of reposDir, the checker's error otherwise.
ensureWithin(repo) ==
    LET joined == JoinRepos(repo)
    IN  IF Len(joined) > Len(reposDir) /\ HasPrefix(joined, reposDir)
            THEN NoError
            ELSE ErrPathEscape

-----------------------------------------------------------------------------
(* The inputs of a session.                                                 *)

\* The second token of a git command line: "/a.git" and "../a".
RepoArgs == { <<"", "a.git">>, <<"..", "a">> }

GitBins == {receivePackBin, uploadPackBin, uploadArchiveBin}

Commands ==
    { <<>>, <<lsBin>>, <<uploadPackBin>>, <<lsBin, <<"", "a.git">> >> }
    \cup { <<bin, arg>> : bin \in GitBins \cup {lfsAuthBin}, arg \in RepoArgs }

NoKey == "nil"
Keys == {"k1"}

\* The repository names the store can hold: those the confinement check lets
\* through.
StoreNames == { n \in { SanitizeRepo(arg) : arg \in RepoArgs } :
                    ensureWithin(RepoFile(n)) = NoError }

-----------------------------------------------------------------------------
VARIABLES
    repos,      \* the backend's repositories (a set of names)
    sessions    \* the bag of the sessions' states

vars == <<repos, sessions>>

NoAuth == [method |-> "none", key |-> NoKey, level |-> NoAccess,
           keyless |-> FALSE, ok |-> FALSE]
NoCmd == <<>>
NoName == <<>>
NoBin == <<>>

\* A connection before authentication.  Of a session: pc is where it is,
\* auth its authentication attempt, cmd is s.Command(), gc, name and access
\* are the handler's locals, log the calls the handler made, in order.
NewSession ==
    [pc |-> "connecting", auth |-> NoAuth, cmd |-> NoCmd, gc |-> NoBin,
     name |-> NoName, access |-> NoAccess, log |-> <<>>]

Event(op, arg) == [op |-> op, arg |-> arg]

Sessions == BagToSet(sessions)

\* Session s takes a step that leaves it as t.
Becomes(s, t) == sessions' = (sessions (-) SetToBag({s})) (+) SetToBag({t})

Init ==
    /\ repos \in SUBSET StoreNames
    /\ sessions = [s \in {NewSession} |-> NumSessions]

-----------------------------------------------------------------------------
(* Authentication callbacks.  The backend's answers to AccessLevel("", pk)  *)
(* and AllowKeyless() are inputs.                                           *)

PublicKeyHandler(level) == level >= ReadOnlyAccess

\* The keyboard-interactive callback without the AllowKeyless() conjunct.
KeyboardInteractiveHandlerNoKeylessCheck(keyless, level) ==
    PublicKeyHandler(level)

\* s.PublicKeyHandler(ctx, nil) is asked for the level of the absent key.
KeyboardInteractiveHandler(keyless, level) ==
    keyless /\ PublicKeyHandler(level)

Answered(ok) == IF ok THEN "accepted" ELSE "rejected"

PublicKeyAuth(s) ==
    /\ s.pc = "connecting"
    /\ \E k \in Keys, level \in AccessLevels :
          \E ok \in {PublicKeyHandler(level)} :
              Becomes(s, [s EXCEPT
                  !.auth = [method |-> "publickey", key |-> k,
                            level |-> level, keyless |-> FALSE, ok |-> ok],
                  !.pc = Answered(ok)])
    /\ UNCHANGED repos

KeyboardInteractiveAuth(s) ==
    /\ s.pc = "connecting"
    /\ \E keyless \in BOOLEAN, level \in AccessLevels :
          \E ok \in {KeyboardInteractiveHandler(keyless, level)} :
              Becomes(s, [s EXCEPT
                  !.auth = [method |-> "keyboard-interactive", key |-> NoKey,
                            level |-> level, keyless |-> keyless, ok |-> ok],
                  !.pc = Answered(ok)])
    /\ UNCHANGED repos

-----------------------------------------------------------------------------
(* The git middleware.  A handler's steps that touch nothing shared run as  *)
(* one action; log keeps their order.  A step's result is the log it leaves *)
(* and the place the handler is at.                                         *)

\* sshFatal without its writePktline.
sshFatalNoWrite(l, v) == Append(l, Event("Exit", "1"))

\* sshFatal(s, v): writePktline(s, v) and then s.Exit(1).
sshFatal(l, v) == l \o << Event("writePktline", v), Event("Exit", "1") >>

\* A handler whose return after sshFatal leaves the outer function too,
\* skipping sh(s).
ReturnSkipsNextAfterExit(l) ==
    IF \E i \in DOMAIN l : l[i].op = "Exit"
        THEN [log |-> l, pc |-> "done"]
        ELSE [log |-> Append(l, Event("sh", "nil")), pc |-> "done"]

\* The inner function has returned: sh(s), the next handler, is called.
Return(l) == [log |-> Append(l, Event("sh", "nil")), pc |-> "done"]

Goto(l, where) == [log |-> l, pc |-> where]

IsGitCommand(c) == Len(c) >= 2 /\ HasPrefix(c[1], gitPrefix)

\* case receivePackBin with the threshold of the upload commands, and with
\* no access check at all.
ReceivePackCaseReadOnly(l, level) ==
    IF level < ReadOnlyAccess
        THEN Return(sshFatal(l, ErrNotAuthed))
        ELSE Goto(l, "lookup")

ReceivePackCaseNoCheck(l, level) == Goto(l, "lookup")

\* case receivePackBin, up to the backend lookup.
ReceivePackCase(l, level) ==
    IF level < ReadWriteAccess
        THEN Return(sshFatal(l, ErrNotAuthed))
        ELSE Goto(l, "lookup")

\* case uploadPackBin, uploadArchiveBin going through the lookup and the
\* creation of the push path.
UploadPackCaseCreates(l, level) ==
    IF level < ReadOnlyAccess
        THEN Return(sshFatal(l, ErrNotAuthed))
        ELSE Goto(l, "lookup")

\* case uploadPackBin, uploadArchiveBin, up to the pack operation.
UploadPackCase(l, level) ==
    IF level < ReadOnlyAccess
        THEN Return(sshFatal(l, ErrNotAuthed))
        ELSE Goto(l, "pack")

\* switch gc asking the store for the repository before the access checks.
SwitchProbesRepository(l, bin, n, level) ==
    IF bin \in GitBins /\ n \notin repos
        THEN Return(sshFatal(l, ErrInvalidRepo))
    ELSE IF bin = receivePackBin THEN ReceivePackCase(l, level)
    ELSE IF bin \in {uploadPackBin, uploadArchiveBin} THEN UploadPackCase(l, level)
    ELSE Return(l)

\* switch gc with a default case that refuses the command.
SwitchDefaultRefuses(l, bin, n, level) ==
    CASE bin = receivePackBin -> ReceivePackCase(l, level)
      [] bin \in {uploadPackBin, uploadArchiveBin} -> UploadPackCase(l, level)
      [] OTHER -> Return(sshFatal(l, ErrNotAuthed))

\* switch gc
Switch(l, bin, n, level) ==
    CASE bin = receivePackBin -> ReceivePackCase(l, level)
      [] bin \in {uploadPackBin, uploadArchiveBin} -> UploadPackCase(l, level)
      [] OTHER -> Return(l)

\* The confinement check with its error dropped.
ConfineIgnoresError(l, bin, n, level) ==
    LET err == ensureWithin(RepoFile(n))
        checked == Append(l, Event("ensureWithin", err))
    IN  Switch(checked, bin, n, level)

\* The confinement check and what follows it.
Confine(l, bin, n, level) ==
    LET err == ensureWithin(RepoFile(n))
        checked == Append(l, Event("ensureWithin", err))
    IN  IF err # NoError
            THEN Return(sshFatal(checked, err))
            ELSE Switch(checked, bin, n, level)

\* The handler from its entry to its first call on the store or to its
\* return.  level is the backend's answer to AccessLevel(name, pk).
Handle(l, c, level) ==
    IF IsGitCommand(c)
        THEN Confine(Append(l, Event("AccessLevel", "nil")),
                     c[1], SanitizeRepo(c[2]), level)
        ELSE Return(l)

\* The locals of a handler given the command line c.
Locals(c, level) ==
    IF IsGitCommand(c)
        THEN [gc |-> c[1], name |-> SanitizeRepo(c[2]), access |-> level]
        ELSE [gc |-> NoBin, name |-> NoName, access |-> NoAccess]

Dispatch(s) ==
    /\ s.pc = "accepted"
    /\ \E c \in Commands, level \in AccessLevels :
          /\ IsGitCommand(c) \/ level = NoAccess
          /\ \E r \in {Handle(s.log, c, level)}, v \in {Locals(c, level)} :
                Becomes(s, [s EXCEPT !.auth = NoAuth, !.cmd = c,
                                     !.gc = v.gc, !.name = v.name,
                                     !.access = v.access,
                                     !.log = r.log, !.pc = r.pc])
    /\ UNCHANGED repos

\* The results cfg.Backend.Repository(name) can have: the repository, not
\* found, or a failure of the lookup itself.
RepositoryResults(n) ==
    IF n \in repos THEN {NoError, ErrLookupFailed}
                   ELSE {ErrRepoNotFound, ErrLookupFailed}

\* The handling of Repository's result that creates only on not-found and
\* gives up on any other error.
OnRepositoryNotFoundOnly(l, err) ==
    LET called == Append(l, Event("Repository", err))
    IN  IF err = ErrRepoNotFound THEN Goto(called, "create")
        ELSE IF err # NoError
            THEN Return(sshFatal(called, ErrSystemMalfunction))
        ELSE Goto(called, "pack")

\* What the handler does with the result of Repository.
OnRepository(l, err) ==
    LET called == Append(l, Event("Repository", err))
    IN  IF err # NoError THEN Goto(called, "create") ELSE Goto(called, "pack")

Lookup(s) ==
    /\ s.pc = "lookup"
    /\ \E err \in RepositoryResults(s.name) :
          \E r \in {OnRepository(s.log, err)} :
              Becomes(s, [s EXCEPT !.log = r.log, !.pc = r.pc])
    /\ UNCHANGED repos

\* The results cfg.Backend.CreateRepository(name, false) can have.
CreateResults(n) ==
    IF n \in repos THEN {ErrRepoExist} ELSE {NoError, ErrCreateFailed}

\* The handling of CreateRepository's result that returns on an error
\* without telling the client.
OnCreateSilent(l, err) ==
    LET called == Append(l, Event("CreateRepository", err))
    IN  IF err # NoError
            THEN Return(called)
            ELSE Goto(called, "pack")

\* What the handler does with the result of CreateRepository.
OnCreate(l, err) ==
    LET called == Append(l, Event("CreateRepository", err))
    IN  IF err # NoError
            THEN Return(sshFatal(called, err))
            ELSE Goto(called, "pack")

Create(s) ==
    /\ s.pc = "create"
    /\ \E err \in CreateResults(s.name) :
          /\ repos' = IF err = NoError THEN repos \cup {s.name} ELSE repos
          /\ \E r \in {OnCreate(s.log, err)} :
                Becomes(s, [s EXCEPT !.log = r.log, !.pc = r.pc])

\* The results a pack operation can have on repoDir.
PackResults(n) ==
    IF n \in repos THEN {NoError, ErrPackFailed} ELSE {ErrInvalidRepo}

\* What the handler does with the result of receivePack.
OnReceivePack(l, err) ==
    LET called == Append(l, Event("receivePack", err))
    IN  IF err # NoError
            THEN Return(sshFatal(called, ErrSystemMalfunction))
            ELSE Return(called)

\* A receive-pack step that deletes the repository the session created
\* when the pack operation fails.
ReceivePackRollsBack(s) ==
    /\ s.pc = "pack"
    /\ s.gc = receivePackBin
    /\ \E err \in PackResults(s.name) :
          /\ \E r \in {OnReceivePack(s.log, err)} :
                Becomes(s, [s EXCEPT !.log = r.log, !.pc = r.pc])
          /\ repos' =
                IF err # NoError
                      /\ \E i \in DOMAIN s.log :
                            s.log[i] = Event("CreateRepository", NoError)
                    THEN repos \ {s.name}
                    ELSE repos

ReceivePack(s) ==
    /\ s.pc = "pack"
    /\ s.gc = receivePackBin
    /\ \E err \in PackResults(s.name) :
          \E r \in {OnReceivePack(s.log, err)} :
              Becomes(s, [s EXCEPT !.log = r.log, !.pc = r.pc])
    /\ UNCHANGED repos

\* gitPack := uploadPack, or uploadArchive for uploadArchiveBin.
GitPack(bin) == IF bin = uploadArchiveBin THEN "uploadArchive" ELSE "uploadPack"

\* The handling of gitPack's result with every error reported as the system
\* malfunction.
OnUploadPackOpaque(l, bin, err) ==
    LET called == Append(l, Event(GitPack(bin), err))
    IN  IF err # NoError
            THEN Return(sshFatal(called, ErrSystemMalfunction))
            ELSE Return(called)

\* What the handler does with the result of gitPack.
OnUploadPack(l, bin, err) ==
    LET called == Append(l, Event(GitPack(bin), err))
    IN  IF err = ErrInvalidRepo
            THEN Return(sshFatal(called, ErrInvalidRepo))
        ELSE IF err # NoError
            THEN Return(sshFatal(called, ErrSystemMalfunction))
        ELSE Return(called)

UploadPack(s) ==
    /\ s.pc = "pack"
    /\ s.gc \in {uploadPackBin, uploadArchiveBin}
    /\ \E err \in PackResults(s.name) :
          \E r \in {OnUploadPack(s.log, s.gc, err)} :
              Becomes(s, [s EXCEPT !.log = r.log, !.pc = r.pc])
    /\ UNCHANGED repos

Next ==
    \/ \E s \in Sessions : PublicKeyAuth(s)
    \/ \E s \in Sessions : KeyboardInteractiveAuth(s)
    \/ \E s \in Sessions : Dispatch(s)
    \/ \E s \in Sessions : Lookup(s)
    \/ \E s \in Sessions : Create(s)
    \/ \E s \in Sessions : ReceivePack(s)
    \/ \E s \in Sessions : UploadPack(s)

Spec == Init /\ [][Next]_vars

-----------------------------------------------------------------------------
(* Reading a session's log.                                                 *)

Has(s, op) == \E i \in DOMAIN s.log : s.log[i].op = op

HasEvent(s, op, arg) == \E i \in DOMAIN s.log : s.log[i] = Event(op, arg)

Count(s, op) == Cardinality({ i \in DOMAIN s.log : s.log[i].op = op })

PackOps == {"receivePack", "uploadPack", "uploadArchive"}

\* The calls that reach the repository store or the file system.
StoreOps == {"Repository", "CreateRepository"} \cup PackOps

HasAny(s, ops) == \E i \in DOMAIN s.log : s.log[i].op \in ops

IsClientVisible(e) == e.op \in {"writePktline", "Exit"}

\* What the dispatcher lets the client observe: its messages and the exit.
ClientView(s) == SelectSeq(s.log, IsClientVisible)

FatalView(v) == << Event("writePktline", v), Event("Exit", "1") >>

Returned(s) == s.pc = "done"

\* s and t are the states of two sessions.
Two(s, t) == s # t \/ CopiesIn(s, sessions) >= 2

ConfinementPassed(s) == HasEvent(s, "ensureWithin", NoError)

ConfinementFailed(s) ==
    \E i \in DOMAIN s.log :
        s.log[i].op = "ensureWithin" /\ s.log[i].arg # NoError

\* The level the specification requires for each operation.
RequiredLevel(bin) ==
    IF bin = receivePackBin THEN ReadWriteAccess ELSE ReadOnlyAccess

BelowThreshold(s) ==
    s.gc \in GitBins /\ s.access < RequiredLevel(s.gc)

PackOpOf(bin) ==
    CASE bin = receivePackBin -> "receivePack"
      [] bin = uploadPackBin -> "uploadPack"
      [] bin = uploadArchiveBin -> "uploadArchive"
      [] OTHER -> "none"

-----------------------------------------------------------------------------
\* C1 (as amended): a pack operation has been invoked for a session only if
\* it is the operation of the session's command and the session's access
\* level met its threshold (ReadWrite for receive-pack, ReadOnly for
\* upload-pack and upload-archive); a session below the threshold never
\* invokes a pack operation and, when its confinement check passed, ends with
\* the NotAuthorized fatal error.
PackOnlyWhenAuthorized ==
    \A s \in Sessions :
        /\ \A op \in PackOps :
              Has(s, op) => /\ op = PackOpOf(s.gc)
                            /\ s.access >= RequiredLevel(s.gc)
        /\ (Returned(s) /\ BelowThreshold(s)) =>
              /\ ~HasAny(s, PackOps)
              /\ ConfinementPassed(s) => ClientView(s) = FatalView(ErrNotAuthed)

\* C1 as stated: every session below the threshold ends in the NotAuthorized
\* fatal error (also one whose confinement check failed).
DeniedAlwaysNotAuthorized ==
    \A s \in Sessions :
        /\ \A op \in PackOps :
              Has(s, op) => /\ op = PackOpOf(s.gc)
                            /\ s.access >= RequiredLevel(s.gc)
        /\ (Returned(s) /\ BelowThreshold(s)) =>
              /\ ~HasAny(s, PackOps)
              /\ ClientView(s) = FatalView(ErrNotAuthed)

\* A session was denied with NotAuthorized while another invoked its pack
\* operation.
DeniedAndServed ==
    \E s, t \in Sessions :
        /\ Returned(s) /\ BelowThreshold(s) /\ ConfinementPassed(s)
        /\ ClientView(s) = FatalView(ErrNotAuthed)
        /\ HasAny(t, PackOps)

\* C2: CreateRepository is called only by a receive-pack session with at
\* least ReadWrite access, right after its Repository lookup failed; an
\* upload-pack or upload-archive session never calls it.
CreateOnlyOnPush ==
    \A s \in Sessions :
        /\ \A i \in DOMAIN s.log :
              s.log[i].op = "CreateRepository" =>
                  /\ s.gc = receivePackBin
                  /\ s.access >= ReadWriteAccess
                  /\ i > 1
                  /\ s.log[i - 1].op = "Repository"
                  /\ s.log[i - 1].arg # NoError
        /\ s.gc \in {uploadPackBin, uploadArchiveBin} =>
              ~Has(s, "CreateRepository")

\* An authorized fetch of a repository that did not exist ended with
\* InvalidRepository, and a push created the repository.
PushCreatedFetchDidNot ==
    \E s, t \in Sessions :
        /\ HasEvent(s, "CreateRepository", NoError)
        /\ t.gc \in {uploadPackBin, uploadArchiveBin}
        /\ t.access >= ReadOnlyAccess
        /\ Returned(t)
        /\ HasEvent(t, GitPack(t.gc), ErrInvalidRepo)

\* C3: two receive-pack sessions with ReadWrite access that both found the
\* same repository missing, and whose creation met no failure other than the
\* race itself, both go on to invoke receive-pack, the repository having
\* been created exactly once.
PushRaceBothSucceed ==
    \A s, t \in Sessions :
        ( /\ Two(s, t)
          /\ s.gc = receivePackBin /\ t.gc = receivePackBin
          /\ s.name = t.name
          /\ s.access >= ReadWriteAccess /\ t.access >= ReadWriteAccess
          /\ HasEvent(s, "Repository", ErrRepoNotFound)
          /\ HasEvent(t, "Repository", ErrRepoNotFound)
          /\ ~HasEvent(s, "CreateRepository", ErrCreateFailed)
          /\ ~HasEvent(t, "CreateRepository", ErrCreateFailed)
          /\ Returned(s) /\ Returned(t) )
        => /\ Has(s, "receivePack") /\ Has(t, "receivePack")
           /\ ~Has(s, "writePktline") \/ HasEvent(s, "receivePack", ErrPackFailed)
           /\ ~Has(t, "writePktline") \/ HasEvent(t, "receivePack", ErrPackFailed)
           /\ HasEvent(s, "CreateRepository", NoError)
                  # HasEvent(t, "CreateRepository", NoError)

\* C4: a session whose confinement check failed ends in a fatal error and
\* calls none of Repository, CreateRepository, receive-pack, upload-pack and
\* upload-archive; every git session makes the check exactly once, before any
\* such call.
ConfinementBeforeStore ==
    \A s \in Sessions :
        /\ ConfinementFailed(s) =>
              /\ Returned(s)
              /\ Has(s, "writePktline") /\ HasEvent(s, "Exit", "1")
              /\ ~HasAny(s, StoreOps)
        /\ IsGitCommand(s.cmd) =>
              /\ Count(s, "ensureWithin") = 1
              /\ \A i, j \in DOMAIN s.log :
                    (s.log[i].op = "ensureWithin" /\ s.log[j].op \in StoreOps)
                        => i < j

\* A session's confinement check failed, and another's passed before its
\* store calls.
ConfinementRejected ==
    \E s, t \in Sessions :
        /\ ConfinementFailed(s) /\ Returned(s)
        /\ s.gc \in GitBins
        /\ s.access >= RequiredLevel(s.gc)
        /\ ConfinementPassed(t) /\ HasAny(t, StoreOps)

\* C5: a receive-pack session with less than ReadWrite access on an existing
\* repository gets the NotAuthorized error and makes no Repository lookup,
\* no CreateRepository and no receive-pack call: it leaves the store alone.
DeniedPushLeavesStore ==
    \A s \in Sessions :
        ( /\ Returned(s)
          /\ s.gc = receivePackBin
          /\ s.access < ReadWriteAccess
          /\ s.name \in repos )
        => /\ ClientView(s) = FatalView(ErrNotAuthed)
           /\ ~HasAny(s, StoreOps)

\* A ReadOnly session asked for receive-pack on an existing repository.
ReadOnlyPushDenied ==
    \E s \in Sessions :
        /\ Returned(s)
        /\ s.gc = receivePackBin
        /\ s.access = ReadOnlyAccess
        /\ s.name \in repos

\* The failures of the dispatcher: a call that returned an error the handler
\* treats as fatal.
IsFailure(e) ==
    /\ e.op \in {"ensureWithin", "CreateRepository"} \cup PackOps
    /\ e.arg # NoError

\* C6: every failure of the dispatcher (confinement, insufficient access,
\* creation, pack operation) is followed at once by one error message and
\* then by the exit with status 1; no session has two messages, and none has
\* an exit without the message before it.
OneErrorThenExit ==
    \A s \in Sessions :
        /\ Count(s, "writePktline") <= 1
        /\ Count(s, "Exit") = Count(s, "writePktline")
        /\ \A i \in DOMAIN s.log :
              /\ s.log[i].op = "Exit" =>
                    /\ s.log[i].arg = "1"
                    /\ i > 1
                    /\ s.log[i - 1].op = "writePktline"
              /\ IsFailure(s.log[i]) =>
                    /\ i + 2 <= Len(s.log)
                    /\ s.log[i + 1].op = "writePktline"
                    /\ s.log[i + 2] = Event("Exit", "1")
        /\ (Returned(s) /\ BelowThreshold(s)) => Count(s, "writePktline") = 1

\* A pack operation failed in one session, and another was denied.
FailureReported ==
    \E s, t \in Sessions :
        /\ \E i \in DOMAIN s.log :
              s.log[i].op \in PackOps /\ IsFailure(s.log[i])
        /\ Returned(s) /\ Has(s, "Exit")
        /\ Returned(t) /\ BelowThreshold(t) /\ Has(t, "Exit")

\* The system failures: a CreateRepository error, a receive-pack error, an
\* upload error other than InvalidRepository.
IsSystemFailure(e) ==
    \/ e.op \in {"CreateRepository", "receivePack"} /\ e.arg # NoError
    \/ e.op \in {"uploadPack", "uploadArchive"}
          /\ e.arg \notin {NoError, ErrInvalidRepo}

\* C7: after every system failure the message written to the client is the
\* generic system-malfunction error, never the underlying error value.
SystemFailureIsOpaque ==
    \A s \in Sessions :
        \A i \in DOMAIN s.log :
            IsSystemFailure(s.log[i]) =>
                /\ i < Len(s.log)
                /\ s.log[i + 1] = Event("writePktline", ErrSystemMalfunction)

\* C8: after a failed confinement check the message written to the client
\* is the generic system-malfunction error, not the checker's error value.
ConfinementFailureIsOpaque ==
    \A s \in Sessions :
        \A i \in DOMAIN s.log :
            (s.log[i].op = "ensureWithin" /\ s.log[i].arg # NoError) =>
                /\ i < Len(s.log)
                /\ s.log[i + 1] = Event("writePktline", ErrSystemMalfunction)

\* What a denied client sees, from the command line alone.
DenialView(c) ==
    LET err == ensureWithin(RepoFile(SanitizeRepo(c[2])))
    IN  IF err = NoError THEN FatalView(ErrNotAuthed) ELSE FatalView(err)

\* C9: what the client of a session below the threshold observes is a
\* function of its command line alone, the same whether or not the named
\* repository exists, and the dispatcher has not asked the backend for the
\* repository before denying.
DenialHidesExistence ==
    \A s \in Sessions :
        (Returned(s) /\ BelowThreshold(s)) =>
            /\ ClientView(s) = DenialView(s.cmd)
            /\ ~HasAny(s, StoreOps)

\* A push and a fetch, both below their thresholds and both naming a
\* repository that exists, were denied without a call on the store.
DeniedOnExistingRepository ==
    \E s, t \in Sessions :
        /\ Returned(s) /\ BelowThreshold(s) /\ s.gc = receivePackBin
        /\ Returned(t) /\ BelowThreshold(t) /\ t.gc = uploadPackBin
        /\ s.name \in repos /\ t.name \in repos
        /\ ClientView(s) = FatalView(ErrNotAuthed)
        /\ ClientView(t) = ClientView(s)

\* C10: the public-key callback accepts iff the level of the presented key
\* is at least ReadOnly; the keyboard-interactive callback accepts iff
\* keyless access is allowed and the level of the absent key is at least
\* ReadOnly; a connection goes on exactly when its callback accepted.
AuthCallbacksExact ==
    \A s \in Sessions :
        /\ s.auth.method = "publickey" =>
              (s.auth.ok <=> s.auth.level >= ReadOnlyAccess)
        /\ s.auth.method = "keyboard-interactive" =>
              /\ s.auth.key = NoKey
              /\ s.auth.ok <=>
                    (s.auth.keyless /\ s.auth.level >= ReadOnlyAccess)
        /\ s.pc = "accepted" => s.auth.ok
        /\ s.pc = "rejected" => ~s.auth.ok /\ s.auth.method # "none"

\* Keyboard-interactive accepted one connection and refused another whose
\* absent key had ReadOnly access but with keyless access disabled.
KeylessAcceptedAndRefused ==
    \E s, t \in Sessions :
        /\ s.auth.method = "keyboard-interactive"
        /\ s.pc = "accepted"
        /\ t.auth.method = "keyboard-interactive"
        /\ ~t.auth.keyless /\ t.auth.level >= ReadOnlyAccess
        /\ t.pc = "rejected"

IsUpload(e) == e.op \in {"uploadPack", "uploadArchive"}

\* C11: an upload-pack or upload-archive operation is invoked only for a
\* session with at least ReadOnly access; when it returned InvalidRepository
\* the client is sent exactly InvalidRepository and exit 1, when it returned
\* another error the client is sent the system-malfunction error and exit 1,
\* when it returned no error nothing is written and no exit status is set;
\* a fetch session never asks the store to look up or create a repository,
\* and the upload of a repository that still does not exist has returned
\* InvalidRepository.
UploadErrorsSurfaced ==
    \A s \in Sessions :
        \A i \in DOMAIN s.log :
            IsUpload(s.log[i]) =>
                /\ s.access >= ReadOnlyAccess
                /\ Returned(s)
                /\ ~HasAny(s, {"Repository", "CreateRepository"})
                /\ s.name \notin repos => s.log[i].arg = ErrInvalidRepo
                /\ ClientView(s) =
                      CASE s.log[i].arg = NoError -> <<>>
                        [] s.log[i].arg = ErrInvalidRepo ->
                              FatalView(ErrInvalidRepo)
                        [] OTHER -> FatalView(ErrSystemMalfunction)

\* An authorized fetch of a repository that does not exist was answered
\* InvalidRepository and the repository still does not exist.
FetchOfMissingRepository ==
    \E s \in Sessions :
        /\ s.gc = uploadPackBin /\ s.access >= ReadOnlyAccess
        /\ HasEvent(s, "uploadPack", ErrInvalidRepo)
        /\ ClientView(s) = FatalView(ErrInvalidRepo)
        /\ s.name \notin repos

\* Every call of ops in the log of s comes after a call of op that returned
\* no error.
After(s, ops, op) ==
    \A i \in DOMAIN s.log :
        s.log[i].op \in ops =>
            \E j \in 1..(i - 1) : s.log[j] = Event(op, NoError)

\* Every call of ops in the log of s comes after every call of the
\* operations in before.
Follows(s, ops, before) ==
    \A i, j \in DOMAIN s.log :
        (s.log[i].op \in ops /\ s.log[j].op \in before) => j < i

\* C12: in every session the confinement check has completed and passed
\* before the backend's AccessLevel is consulted, AccessLevel has been
\* consulted before any Repository or CreateRepository call, and the
\* lookup and the creation have completed before the pack operation.
StagesStrictlyOrdered ==
    \A s \in Sessions :
        /\ After(s, {"AccessLevel"}, "ensureWithin")
        /\ Follows(s, {"Repository", "CreateRepository"}, {"AccessLevel"})
        /\ HasAny(s, {"Repository", "CreateRepository"}) => Has(s, "AccessLevel")
        /\ Follows(s, PackOps, {"Repository", "CreateRepository"})

\* The command line of s is not one of the three git operations.
NotAnOperation(s) == Returned(s) /\ s.gc \notin GitBins

\* C13 (as amended): for a command line that is not one of the three git
\* operations the dispatcher calls no Repository, CreateRepository or pack
\* operation and hands the session to the next handler; it calls nothing at
\* all when the line has fewer than two tokens or no git prefix; for a
\* git-prefixed line it writes nothing and sets no exit status when the
\* confinement check of the named repository passed, and ends the session
\* with the checker's error and exit 1 when the check failed.
NonOperationIsNoOp ==
    \A s \in Sessions :
        NotAnOperation(s) =>
            /\ ~HasAny(s, StoreOps)
            /\ s.log[Len(s.log)] = Event("sh", "nil")
            /\ ~IsGitCommand(s.cmd) => s.log = << Event("sh", "nil") >>
            /\ IsGitCommand(s.cmd) =>
                  ClientView(s) =
                      IF ensureWithin(RepoFile(SanitizeRepo(s.cmd[2]))) = NoError
                          THEN <<>>
                          ELSE FatalView(ErrPathEscape)

\* C13 as stated: for every command line that is not one of the three git
\* operations the dispatcher writes nothing, sets no exit status, calls no
\* store or pack operation and hands the session to the next handler.
NonOperationAlwaysNoOp ==
    \A s \in Sessions :
        NotAnOperation(s) =>
            /\ ~HasAny(s, StoreOps)
            /\ s.log[Len(s.log)] = Event("sh", "nil")
            /\ ClientView(s) = <<>>

\* A git-prefixed command that is none of the three operations passed
\* through the dispatcher untouched, and another one, naming a path outside
\* the repository root, was ended with the checker's error.
NonOperationPassedAndRefused ==
    \E s, t \in Sessions :
        /\ NotAnOperation(s) /\ IsGitCommand(s.cmd) /\ ClientView(s) = <<>>
        /\ NotAnOperation(t) /\ IsGitCommand(t.cmd)
        /\ ClientView(t) = FatalView(ErrPathEscape)

\* s is inside the handler, between two calls on the store.
InHandler(s) == s.pc \in {"lookup", "create", "pack"}

\* s ended with the fatal error that carries the failure of its creation.
CreationFailureReported(s) ==
    \E i \in DOMAIN s.log :
        /\ s.log[i].op = "CreateRepository"
        /\ s.log[i].arg # NoError
        /\ ClientView(s) = FatalView(s.log[i].arg)

\* C16: whatever the interleaving of the sessions that push to a name the
\* store does not hold, a session inside the handler can always take its
\* next step, a push session that reached the store and has returned has
\* either invoked receive-pack or ended with the fatal error carrying its
\* creation failure, and no two CreateRepository calls for one name have
\* succeeded.
CreationRaceSettled ==
    /\ \A s \in Sessions :
          /\ InHandler(s) =>
                ENABLED (Lookup(s) \/ Create(s) \/ ReceivePack(s)
                            \/ UploadPack(s))
          /\ (Returned(s) /\ s.gc = receivePackBin /\ Has(s, "Repository")) =>
                Has(s, "receivePack") \/ CreationFailureReported(s)
          /\ Count(s, "CreateRepository") <= 1
    /\ \A s, t \in Sessions :
          (/\ Two(s, t)
           /\ HasEvent(s, "CreateRepository", NoError)
           /\ HasEvent(t, "CreateRepository", NoError)) => s.name # t.name

\* Two pushes raced to create the same repository: one created it and
\* invoked receive-pack, the other ended with its creation failure.
CreationRaceHappened ==
    \E s, t \in Sessions :
        /\ Returned(s) /\ Returned(t) /\ s.name = t.name
        /\ HasEvent(s, "Repository", ErrRepoNotFound)
        /\ HasEvent(t, "Repository", ErrRepoNotFound)
        /\ HasEvent(s, "CreateRepository", NoError) /\ Has(s, "receivePack")
        /\ HasEvent(t, "CreateRepository", ErrRepoExist)
        /\ CreationFailureReported(t) /\ ~Has(t, "receivePack")

\* C17: the dispatcher has called the next handler exactly once for every
\* session it has finished with, as the last thing it did, also after
\* sshFatal and after a pack operation, and has not called it for a session
\* it has not finished with.
NextHandlerExactlyOnce ==
    \A s \in Sessions :
        /\ Returned(s) => /\ Count(s, "sh") = 1
                          /\ s.log[Len(s.log)].op = "sh"
        /\ ~Returned(s) => Count(s, "sh") = 0
        /\ Count(s, "Exit") <= 1

\* The next handler was called after a fatal error in one session and
\* after a successful pack operation in another.
NextHandlerAfterFatalAndPack ==
    \E s, t \in Sessions :
        /\ Returned(s) /\ Has(s, "Exit") /\ s.log[Len(s.log)].op = "sh"
        /\ Returned(t) /\ ~Has(t, "Exit") /\ HasAny(t, PackOps)
        /\ t.log[Len(t.log)].op = "sh"

\* C18: receive-pack is invoked in a session only after Repository or
\* CreateRepository returned without error in that session; after any error
\* of Repository the session's next call is CreateRepository; and a session
\* whose CreateRepository failed never invokes receive-pack.
ReceivePackOnlyOnRepository ==
    \A s \in Sessions :
        \A i \in DOMAIN s.log :
            /\ s.log[i].op = "receivePack" =>
                  \E j \in 1..(i - 1) :
                      s.log[j] \in { Event("Repository", NoError),
                                     Event("CreateRepository", NoError) }
            /\ (s.log[i].op = "Repository" /\ s.log[i].arg # NoError) =>
                  IF i = Len(s.log)
                      THEN s.pc = "create"
                      ELSE s.log[i + 1].op = "CreateRepository"
            /\ (s.log[i].op = "CreateRepository" /\ s.log[i].arg # NoError) =>
                  ~Has(s, "receivePack")

\* A lookup that failed for another reason than not-found was followed by
\* a creation that failed, and no receive-pack; in another session a
\* creation succeeded and receive-pack was invoked.
CreationAfterLookupFailure ==
    \E s, t \in Sessions :
        /\ Returned(s) /\ HasEvent(s, "Repository", ErrLookupFailed)
        /\ HasEvent(s, "CreateRepository", ErrRepoExist)
        /\ ~Has(s, "receivePack")
        /\ Returned(t) /\ HasEvent(t, "CreateRepository", NoError)
        /\ Has(t, "receivePack")

\* C19: the repository a session's CreateRepository call created is in the
\* store in every later state, also after that session's receive-pack has
\* failed and the session has ended with the system-malfunction error.
CreatedRepositoryStays ==
    \A s \in Sessions :
        HasEvent(s, "CreateRepository", NoError) => s.name \in repos

\* A session created its repository, its receive-pack failed, it ended
\* with the system-malfunction error, and the repository is still there.
CreatedThenPackFailed ==
    \E s \in Sessions :
        /\ Returned(s)
        /\ HasEvent(s, "CreateRepository", NoError)
        /\ HasEvent(s, "receivePack", ErrPackFailed)
        /\ ClientView(s) = FatalView(ErrSystemMalfunction)
        /\ s.name \in repos

====
